---- MODULE Spec2Model ----
(***************************************************************************)
(* Static checking of CWL workflow connectivity (cwltool/checker.py).      *)
(*                                                                         *)
(* Python values are encoded uniformly so that they can be compared:       *)
(*   a string  s            [k |-> "str",  v |-> s]                        *)
(*   a list    [x, y]       [k |-> "list", v |-> <<x, y>>]                 *)
(*   a mapping {...}        [k |-> "map", type, items, fields, symbols,    *)
(*                           sf (secondaryFiles), nc (not_connected)]      *)
(*   None / an absent key   [k |-> "none"]                                 *)
(***************************************************************************)
EXTENDS Integers, Sequences, FiniteSets, TLC

VARIABLES
    tsrc,       \* can_assign_src_to_sink / check_types: the src argument
    tsink,      \* ... the sink argument
    tres,       \* ... the last call made on (tsrc, tsink) and what it returned
    srcs,       \* static_checker: the source parameters (workflow_inputs + step_outputs), by id
    param_to_step, \* static_checker: parameter id -> owning step
    step_inputs,   \* static_checker: the step input sinks
    workflow_outputs, \* static_checker: the workflow output sinks
    runs,       \* static_checker: what each call so far saw and produced
    cyc_inputs, \* circular_dependency_checker: its step_inputs argument
    cyc_out,    \* ... what the call produced
    steps,      \* loop_checker: its steps argument
    loop_out    \* ... what the call produced

vars == <<tsrc, tsink, tres, srcs, param_to_step, step_inputs, workflow_outputs,
          runs, cyc_inputs, cyc_out, steps, loop_out>>

typeVars == <<tsrc, tsink, tres>>
staticVars == <<srcs, param_to_step, step_inputs, workflow_outputs, runs>>
cycleVars == <<cyc_inputs, cyc_out>>
loopVars == <<steps, loop_out>>

\* ------------------------------------------------------------------ bounds
MaxUnion == 2
MaxFields == 2
MaxSinks == 2
MaxEdgeSinks == 1
MaxRuns == 2
MaxCycInputs == 3
MaxSteps == 3

\* ------------------------------------------------------------------ values
NoneV == [k |-> "none"]
Str(s) == [k |-> "str", v |-> s]
List(q) == [k |-> "list", v |-> q]
Map(t, items, fields, symbols, sf, nc) ==
    [k |-> "map", type |-> t, items |-> items, fields |-> fields,
     symbols |-> symbols, sf |-> sf, nc |-> nc]

IsMap(x) == x.k = "map"
IsList(x) == x.k = "list"
IsStr(x) == x.k = "str"

Arr(t) == Map(Str("array"), t, <<>>, <<>>, <<>>, FALSE)
Rec(fields) == Map(Str("record"), NoneV, fields, <<>>, <<>>, FALSE)
Enum(symbols) == Map(Str("enum"), NoneV, <<>>, symbols, <<>>, FALSE)
\* a mapping that only has "type" (and maybe secondaryFiles, not_connected):
\* a parameter, or File with secondaryFiles
Typed(t, sf, nc) == Map(t, NoneV, <<>>, <<>>, sf, nc)

SeqSet(q) == {q[i] : i \in 1..Len(q)}
Last(q) == q[Len(q)]

\* shortname(): the final segment of a slash-separated identifier.  Names are
\* kept as their sequence of segments.
shortname(name) == Last(name)

\* ------------------------------------------------------------------ checker.py
\* _get_type (lines 16-20)
_get_type(tp) ==
    IF IsMap(tp) /\ tp.type \notin {Str("array"), Str("record"), Str("enum")}
    THEN tp.type
    ELSE tp

\* _rec_fields (lines 126-131): the dict short name -> type; a later field of the
\* same short name replaces an earlier one.  Get with a default of "null".
_rec_fields_keys(rec) == {shortname(rec.fields[i].name) : i \in 1..Len(rec.fields)}
_rec_fields_get(rec, key) ==
    LET idx == {i \in 1..Len(rec.fields) : shortname(rec.fields[i].name) = key}
    IN  IF idx = {} THEN Str("null")
        ELSE rec.fields[CHOOSE i \in idx : \A j \in idx : j <= i].type

RECURSIVE can_assign_src_to_sink(_, _, _)
RECURSIVE _compare_records(_, _, _)

\* the File/File branch of can_assign_src_to_sink (lines 87-96)
FileBranch(src, sink, strict) ==
    ~(strict /\ \E i \in 1..Len(sink.sf) :
                  ~\E j \in 1..Len(src.sf) : sink.sf[i] = src.sf[j])

\* the union-source branch (lines 98-107): branches are compared non-strictly
SrcUnionBranch(src, sink, strict) ==
    IF strict
    THEN \A i \in 1..Len(src.v) : can_assign_src_to_sink(src.v[i], sink, FALSE)
    ELSE \E i \in 1..Len(src.v) :
            src.v[i] # Str("null") /\ can_assign_src_to_sink(src.v[i], sink, FALSE)

\* can_assign_src_to_sink (lines 63-113)
can_assign_src_to_sink(src, sink, strict) ==
    IF src = Str("Any") \/ sink = Str("Any") THEN TRUE
    ELSE IF IsMap(src) /\ IsMap(sink) THEN
        IF sink.nc /\ strict THEN FALSE
        ELSE IF src.type = Str("array") /\ sink.type = Str("array")
             THEN can_assign_src_to_sink(src.items, sink.items, strict)
        ELSE IF src.type = Str("record") /\ sink.type = Str("record")
             THEN _compare_records(src, sink, strict)
        ELSE IF src.type = Str("File") /\ sink.type = Str("File")
             THEN FileBranch(src, sink, strict)
        ELSE can_assign_src_to_sink(src.type, sink.type, strict)
    ELSE IF IsList(src) THEN SrcUnionBranch(src, sink, strict)
    ELSE IF IsList(sink)
         THEN \E i \in 1..Len(sink.v) : can_assign_src_to_sink(src, sink.v[i], FALSE)
    ELSE src = sink

\* the mutant of _compare_records: the source's field names are not normalised
CompareRecordsRawSrcNames(src, sink, strict) ==
    \A key \in _rec_fields_keys(sink) :
        LET idx == {i \in 1..Len(src.fields) : src.fields[i].name = <<key>>}
            srct == IF idx = {} THEN Str("null")
                    ELSE src.fields[CHOOSE i \in idx : \A j \in idx : j <= i].type
        IN  can_assign_src_to_sink(srct, _rec_fields_get(sink, key), strict)

\* _compare_records (lines 116-152)
_compare_records(src, sink, strict) ==
    \A key \in _rec_fields_keys(sink) :
        can_assign_src_to_sink(_rec_fields_get(src, key), _rec_fields_get(sink, key), strict)

\* merge_flatten_type (lines 54-60)
RECURSIVE merge_flatten_type(_)
merge_flatten_type(src) ==
    IF IsList(src)
    THEN List([i \in 1..Len(src.v) |-> merge_flatten_type(src.v[i])])
    ELSE IF IsMap(src) /\ src.type = Str("array") THEN src
    ELSE Arr(src)

\* check_types (lines 23-51); linkMerge and valueFrom are NoneV when None
RECURSIVE check_types(_, _, _, _)
check_types(srctype, sinktype, linkMerge, valueFrom) ==
    IF valueFrom # NoneV THEN "pass"
    ELSE IF linkMerge = NoneV THEN
        IF can_assign_src_to_sink(srctype, sinktype, TRUE) THEN "pass"
        ELSE IF can_assign_src_to_sink(srctype, sinktype, FALSE) THEN "warning"
        ELSE "exception"
    ELSE IF linkMerge = Str("merge_nested")
         THEN check_types(Arr(_get_type(srctype)), _get_type(sinktype), NoneV, NoneV)
    ELSE IF linkMerge = Str("merge_flattened")
         THEN check_types(merge_flatten_type(_get_type(srctype)), _get_type(sinktype),
                          NoneV, NoneV)
    ELSE "WorkflowException"

\* ------------------------------------------------------------------ loop_checker
WhenMandatory == "The 'when' clause is mandatory when the 'loop' directive is defined."
LoopScatter == "The 'loop' clause is not compatible with the 'scatter' directive."

\* the mutant of LoopStepErrors: the scatter test is an elif of the when test
LoopStepErrorsElif(step, i) ==
    IF ~step.loop THEN <<>>
    ELSE IF ~step.when THEN <<[step |-> i, text |-> WhenMandatory]>>
    ELSE IF step.scatter THEN <<[step |-> i, text |-> LoopScatter]>>
    ELSE <<>>

\* the body of the loop over steps (lines 539-551): what step i appends
LoopStepErrors(step, i) ==
    IF ~step.loop THEN <<>>
    ELSE (IF ~step.when THEN <<[step |-> i, text |-> WhenMandatory]>> ELSE <<>>)
         \o (IF step.scatter THEN <<[step |-> i, text |-> LoopScatter]>> ELSE <<>>)

RECURSIVE LoopErrorsFrom(_, _)
LoopErrorsFrom(ss, i) ==
    IF i > Len(ss) THEN <<>>
    ELSE LoopStepErrors(ss[i], i) \o LoopErrorsFrom(ss, i + 1)

\* loop_checker (lines 531-553)
loop_checker(ss) ==
    LET exceptions == LoopErrorsFrom(ss, 1)
    IN  [k |-> "done", raised |-> exceptions # <<>>, exceptions |-> exceptions]

\* ------------------------------------------------------------------ cycle detection
\* A parameter id "doc#a/b" is kept as [doc |-> "doc", frag |-> <<"a", "b">>].
\* get_step_id (lines 502-508)
get_step_id(field_id) ==
    IF Len(field_id.frag) > 1
    THEN [field_id EXCEPT !.frag = SubSeq(@, 1, Len(@) - 1)]
    ELSE [field_id EXCEPT !.frag = <<>>]

\* the adjacency dict: its keys in insertion order and the out-list of each
EmptyAdj == [keys |-> <<>>, out |-> <<>>]
AdjHas(adj, v) == v \in SeqSet(adj.keys)
AdjPut(adj, v, outs) ==
    IF AdjHas(adj, v) THEN [adj EXCEPT !.out[v] = outs]
    ELSE [keys |-> Append(adj.keys, v), out |-> adj.out @@ (v :> outs)]

\* lines 473-477 for one vertex_in
AddEdge(adj, vertex_in, vertex_out) ==
    IF ~AdjHas(adj, vertex_in) THEN AdjPut(adj, vertex_in, <<vertex_out>>)
    ELSE IF vertex_out \notin SeqSet(adj.out[vertex_in])
         THEN AdjPut(adj, vertex_in, Append(adj.out[vertex_in], vertex_out))
    ELSE adj

RECURSIVE AddEdges(_, _, _, _)
AddEdges(adj, vertices_in, vertex_out, i) ==
    IF i > Len(vertices_in) THEN adj
    ELSE AddEdges(AddEdge(adj, vertices_in[i], vertex_out), vertices_in, vertex_out, i + 1)

\* lines 467-479 for one step input; source is NoneV, a Str-like single id
\* [k |-> "str", v |-> id] or a list [k |-> "list", v |-> <<id, ...>>]
AddStepInput(adj, step_input) ==
    IF step_input.source = NoneV THEN adj
    ELSE LET vertices_in ==
                 IF IsList(step_input.source)
                 THEN [i \in 1..Len(step_input.source.v) |->
                          get_step_id(step_input.source.v[i])]
                 ELSE <<get_step_id(step_input.source.v)>>
             vertex_out == get_step_id(step_input.id)
             withEdges == AddEdges(adj, vertices_in, vertex_out, 1)
         IN  IF AdjHas(withEdges, vertex_out) THEN withEdges
             ELSE AdjPut(withEdges, vertex_out, <<>>)

\* get_dependency_tree (lines 463-480)
RECURSIVE DependencyTreeFrom(_, _, _)
DependencyTreeFrom(adj, inputs, i) ==
    IF i > Len(inputs) THEN adj
    ELSE DependencyTreeFrom(AddStepInput(adj, inputs[i]), inputs, i + 1)
get_dependency_tree(inputs) == DependencyTreeFrom(EmptyAdj, inputs, 1)

IndexOf(q, x) == CHOOSE i \in 1..Len(q) : q[i] = x /\ \A j \in 1..(i - 1) : q[j] # x

RECURSIVE processDFS(_, _)
RECURSIVE DFSNeighbours(_, _, _, _)

\* the mutant of DFSFinish: the tip is not popped off traversal_path
DFSFinishNoPop(st, tip) == [st EXCEPT !.processed = Append(@, tip)]

\* lines 498-499
DFSFinish(st, tip) ==
    [st EXCEPT !.processed = Append(@, tip),
               !.traversal_path = SubSeq(@, 1, Len(@) - 1)]

\* lines 492-497 for one neighbour of the tip
DFSNeighbour(adjacency, st, vertex) ==
    IF vertex \in SeqSet(st.traversal_path)
    THEN [st EXCEPT !.cycles =
            Append(@, SubSeq(st.traversal_path, IndexOf(st.traversal_path, vertex),
                             Len(st.traversal_path)))]
    ELSE IF vertex \notin SeqSet(st.processed)
         THEN processDFS(adjacency, [st EXCEPT !.traversal_path = Append(@, vertex)])
    ELSE st

DFSNeighbours(adjacency, st, tip, i) ==
    IF i > Len(adjacency.out[tip]) THEN st
    ELSE DFSNeighbours(adjacency, DFSNeighbour(adjacency, st, adjacency.out[tip][i]),
                       tip, i + 1)

\* processDFS (lines 483-499); st is [traversal_path, processed, cycles]
processDFS(adjacency, st) ==
    LET tip == Last(st.traversal_path)
    IN  DFSFinish(DFSNeighbours(adjacency, st, tip, 1), tip)

\* lines 452-455
RECURSIVE DFSFromEach(_, _, _)
DFSFromEach(adjacency, st, i) ==
    IF i > Len(adjacency.keys) THEN st
    ELSE LET vertex == adjacency.keys[i]
         IN  DFSFromEach(adjacency,
                 IF vertex \notin SeqSet(st.processed)
                 THEN processDFS(adjacency, [st EXCEPT !.traversal_path = <<vertex>>])
                 ELSE st,
                 i + 1)

\* circular_dependency_checker (lines 442-460)
circular_dependency_checker(inputs) ==
    LET adjacency == get_dependency_tree(inputs)
        st == DFSFromEach(adjacency,
                  [traversal_path |-> <<>>, processed |-> <<>>, cycles |-> <<>>], 1)
    IN  [k |-> "done", raised |-> st.cycles # <<>>, cycles |-> st.cycles]

\* ------------------------------------------------------------------ static_checker
\* A source parameter is [type, sf]; src_dict maps its id to it.  A sink
\* parameter is [id, source, type, sf, nc, used, linkMerge, pickValue,
\* valueFrom, default]: source is the sink's sourceField ("source" of a step
\* input, "outputSource" of a workflow output), NoneV when the key is absent, a
\* Str for one id, a List for a sequence; default says whether the key is there.
\* A step is [when, loop, outputMethod], NoneV for an absent key.

\* aslist(): a list as it is, anything else as a list of one
aslist(thing) == IF IsList(thing) THEN thing ELSE List(<<thing>>)

\* the parameter as the mapping the oracle sees
SrcParam(src_dict, parm_id) == Typed(src_dict[parm_id].type, src_dict[parm_id].sf, FALSE)
SinkParam(sink) == Typed(sink.type, sink.sf, sink.nc)

\* is_conditional_step (lines 511-516)
is_conditional_step(p2s, parm_id) ==
    parm_id \in DOMAIN p2s /\ p2s[parm_id].when # NoneV

\* is_all_output_method_loop_step (lines 519-528)
is_all_output_method_loop_step(p2s, parm_id) ==
    /\ parm_id \in DOMAIN p2s
    /\ p2s[parm_id].loop # NoneV
    /\ p2s[parm_id].outputMethod = Str("all_iterations")

\* "null" not in x (lines 300, 405, 408): substring of a string, member of a
\* list, key of a mapping; "null" is the only type name containing "null"
NullIn(x) ==
    IF IsStr(x) THEN x.v = "null"
    ELSE IF IsList(x) THEN Str("null") \in SeqSet(x.v)
    ELSE FALSE

\* _SrcSink (lines 320-326); src and sink are kept by id
SrcSink(src, sink, linkMerge, message) ==
    [src |-> src, sink |-> sink.id, linkMerge |-> linkMerge, message |-> message]

CondNoPickValue == Str("Source is from conditional step, but pickValue is not used")
PickValueSingle == Str("pickValue is used but only a single input source is declared")
CondMayBeNull == Str("Source is from conditional step and may produce 'null'")

\* lines 376-380 and 422-426: wrap the source's type in an array, in place
LoopPromote(src_dict, p2s, parm_id) ==
    IF is_all_output_method_loop_step(p2s, parm_id)
    THEN [src_dict EXCEPT ![parm_id].type = Arr(@)]
    ELSE src_dict

\* the mutant of DefaultLinkMerge: no default for a sequence of sources
DefaultLinkMergeNone(sink) ==
    IF sink.pickValue \in {Str("first_non_null"), Str("the_only_non_null")} THEN NoneV
    ELSE sink.linkMerge

\* lines 353-362: the effective linkMerge of a sink whose source is a sequence
DefaultLinkMerge(sink) ==
    IF sink.pickValue \in {Str("first_non_null"), Str("the_only_non_null")} THEN NoneV
    ELSE IF sink.linkMerge # NoneV THEN sink.linkMerge
    ELSE IF Len(sink.source.v) > 1 THEN Str("merge_nested")
    ELSE NoneV

\* lines 365-380: the loop over the ids of a sequence; st is
\* [src_dict, warning, exception, raised]
RECURSIVE SeqSources(_, _, _, _, _)
SeqSources(st, p2s, sink, linkMerge, i) ==
    IF i > Len(sink.source.v) THEN st
    ELSE LET parm_id == sink.source.v[i]
         IN  IF parm_id \notin DOMAIN st.src_dict
             THEN [st EXCEPT !.raised = "KeyError"]
             ELSE SeqSources(
                     [st EXCEPT
                        !.warning =
                            IF is_conditional_step(p2s, parm_id) /\ sink.pickValue = NoneV
                            THEN Append(@, SrcSink(parm_id, sink, linkMerge, CondNoPickValue))
                            ELSE @,
                        !.src_dict = LoopPromote(@, p2s, parm_id)],
                     p2s, sink, linkMerge, i + 1)

\* lines 428-437: check every source of the sink
RECURSIVE CheckSources(_, _, _, _, _)
CheckSources(st, sink, linkMerge, srcs_of_sink, i) ==
    IF i > Len(srcs_of_sink) THEN st
    ELSE LET src == srcs_of_sink[i]
             extra_message ==
                 IF sink.pickValue # NoneV
                 THEN Str("pickValue is: " \o sink.pickValue.v) ELSE NoneV
             check_result ==
                 check_types(SrcParam(st.src_dict, src), SinkParam(sink), linkMerge,
                             sink.valueFrom)
         IN  IF check_result = "WorkflowException"
             THEN [st EXCEPT !.raised = "WorkflowException"]
             ELSE CheckSources(
                     [st EXCEPT
                        !.warning = IF check_result = "warning"
                                    THEN Append(@, SrcSink(src, sink, linkMerge, extra_message))
                                    ELSE @,
                        !.exception = IF check_result = "exception"
                                      THEN Append(@, SrcSink(src, sink, linkMerge, extra_message))
                                      ELSE @],
                     sink, linkMerge, srcs_of_sink, i + 1)

\* lines 352-380 and 428-437: a sink whose source is a sequence
SeqSink(st, p2s, sink) ==
    LET linkMerge == DefaultLinkMerge(sink)
        seen == SeqSources(st, p2s, sink, linkMerge, 1)
    IN  IF seen.raised # "none" THEN seen
        ELSE CheckSources(seen, sink, linkMerge, sink.source.v, 1)

\* the mutant of CondPromote: the warning without the widening of the type
CondPromoteNoWiden(st, p2s, sink, parm_id) ==
    IF ~is_conditional_step(p2s, parm_id) THEN st
    ELSE [st EXCEPT
            !.warning = IF ~NullIn(sink.type)
                        THEN Append(@, SrcSink(parm_id, sink, NoneV, CondMayBeNull))
                        ELSE @]

\* lines 401-420: a single source owned by a conditional step
CondPromote(st, p2s, sink, parm_id) ==
    IF ~is_conditional_step(p2s, parm_id) THEN st
    ELSE LET src_typ0 == aslist(st.src_dict[parm_id].type)
             src_typ == IF ~NullIn(src_typ0)
                        THEN List(<<Str("null")>> \o src_typ0.v) ELSE src_typ0
         IN  [st EXCEPT
                !.warning = IF ~NullIn(sink.type)
                            THEN Append(@, SrcSink(parm_id, sink, NoneV, CondMayBeNull))
                            ELSE @,
                !.src_dict[parm_id].type = src_typ]

\* lines 381-437: a sink whose source is one id
SingleSink(st, p2s, sink) ==
    LET parm_id == sink.source.v
    IN  IF parm_id \notin DOMAIN st.src_dict
        THEN [st EXCEPT !.raised = "ValidationException"]
        ELSE LET picked ==
                     [st EXCEPT !.warning =
                        IF sink.pickValue # NoneV
                        THEN Append(@, SrcSink(parm_id, sink, NoneV, PickValueSingle))
                        ELSE @]
                 cond == CondPromote(picked, p2s, sink, parm_id)
                 loop == [cond EXCEPT !.src_dict = LoopPromote(@, p2s, parm_id)]
             IN  CheckSources(loop, sink, NoneV, <<parm_id>>, 1)

\* lines 343-437 for one sink
CheckSink(st, p2s, sink) ==
    IF sink.source = NoneV THEN st
    ELSE IF IsList(sink.source) THEN SeqSink(st, p2s, sink)
    ELSE SingleSink(st, p2s, sink)

\* _check_all_types (lines 329-439); a raise ends the loop
RECURSIVE _check_all_types(_, _, _, _)
_check_all_types(st, sinks, p2s, i) ==
    IF i > Len(sinks) \/ st.raised # "none" THEN st
    ELSE _check_all_types(CheckSink(st, p2s, sinks[i]), sinks, p2s, i + 1)

\* sorted(patterns) (lines 198-206): the patterns are ordered as in PatternOrder
PatternOrder == <<".bai", ".fai">>
RECURSIVE Repeat(_, _)
Repeat(x, n) == IF n <= 0 THEN <<>> ELSE <<x>> \o Repeat(x, n - 1)
RECURSIVE SortedFrom(_, _)
SortedFrom(patterns, i) ==
    IF i > Len(PatternOrder) THEN <<>>
    ELSE Repeat(PatternOrder[i],
                Cardinality({j \in 1..Len(patterns) : patterns[j] = PatternOrder[i]}))
         \o SortedFrom(patterns, i + 1)
sorted(patterns) == SortedFrom(patterns, 1)
RECURSIVE SelectRequired(_, _)
SelectRequired(sf, i) ==
    IF i > Len(sf) THEN <<>>
    ELSE (IF sf[i].required # "false" THEN <<sf[i].pattern>> ELSE <<>>)
         \o SelectRequired(sf, i + 1)

\* missing_subset (lines 155-161)
RECURSIVE MissingFrom(_, _, _)
MissingFrom(fullset, subset, i) ==
    IF i > Len(subset) THEN <<>>
    ELSE (IF subset[i] \notin SeqSet(fullset) THEN <<subset[i]>> ELSE <<>>)
         \o MissingFrom(fullset, subset, i + 1)
missing_subset(fullset, subset) == MissingFrom(fullset, subset, 1)

SinkById(sinks, id) == sinks[CHOOSE i \in 1..Len(sinks) : sinks[i].id = id]

\* lines 195-270: the message of one warning, NoneV when it is empty
WarningMsg(src_dict, sinks, warning) ==
    LET src == src_dict[warning.src]
        sink == SinkById(sinks, warning.sink)
        sinksf == sorted(SelectRequired(sink.sf, 1))
        srcsf == sorted([j \in 1..Len(src.sf) |-> src.sf[j].pattern])
        missing == missing_subset(srcsf, sinksf)
        kind == IF missing # <<>> THEN "missing_secondaryFiles"
                ELSE IF sink.nc THEN (IF ~sink.used THEN "not_an_input" ELSE "")
                ELSE "may_be_incompatible"
    IN  IF kind = "" /\ warning.message = NoneV THEN NoneV
        ELSE [k |-> "msg", kind |-> kind, src |-> warning.src, sink |-> warning.sink,
              missing |-> missing,
              srctype |-> IF kind = "may_be_incompatible" THEN src.type ELSE NoneV,
              linkMerge |-> IF kind = "may_be_incompatible" THEN warning.linkMerge
                            ELSE NoneV,
              message |-> warning.message]

\* lines 272-294: the message of one exception
ExceptionMsg(src_dict, exception) ==
    [k |-> "msg", kind |-> "is_incompatible", src |-> exception.src,
     sink |-> exception.sink, missing |-> <<>>,
     srctype |-> src_dict[exception.src].type, linkMerge |-> exception.linkMerge,
     message |-> exception.message]

\* lines 305-308
RequiredMsg(sink) ==
    [k |-> "msg", kind |-> "required_parameter", src |-> "", sink |-> sink.id,
     missing |-> <<>>, srctype |-> NoneV, linkMerge |-> NoneV, message |-> NoneV]

\* lines 296-304
IsUnwiredRequired(sink) ==
    /\ Str("null") # sink.type
    /\ ~NullIn(sink.type)
    /\ sink.source = NoneV
    /\ ~sink.default
    /\ sink.valueFrom = NoneV

RECURSIVE SelectSeq2(_, _, _)
\* the non-empty messages, in order
SelectSeq2(q, i, drop) ==
    IF i > Len(q) THEN <<>>
    ELSE (IF q[i] = drop THEN <<>> ELSE <<q[i]>>) \o SelectSeq2(q, i + 1, drop)

RECURSIVE RequiredMsgs(_, _)
RequiredMsgs(sinks, i) ==
    IF i > Len(sinks) THEN <<>>
    ELSE (IF IsUnwiredRequired(sinks[i]) THEN <<RequiredMsg(sinks[i])>> ELSE <<>>)
         \o RequiredMsgs(sinks, i + 1)

\* line 316: whether static_checker raises at its end
RaiseAtEnd(exceptions, exception_msgs) == exceptions # <<>>

\* static_checker (lines 164-317): what one call does to the source
\* parameters and what it produces.  A raise inside _check_all_types ends the
\* call there; the promotions made before it stay.
static_checker(src_dict, sinks_in, sinks_out, p2s) ==
    LET st0 == [src_dict |-> src_dict, warning |-> <<>>, exception |-> <<>>,
                raised |-> "none"]
        step_inputs_val == _check_all_types(st0, sinks_in, p2s, 1)
        workflow_outputs_val ==
            _check_all_types([step_inputs_val EXCEPT !.warning = <<>>, !.exception = <<>>],
                             sinks_out, p2s, 1)
        final == workflow_outputs_val.src_dict
        warnings == step_inputs_val.warning \o workflow_outputs_val.warning
        exceptions == step_inputs_val.exception \o workflow_outputs_val.exception
        warning_msgs ==
            SelectSeq2([j \in 1..Len(warnings) |->
                            WarningMsg(final, sinks_in \o sinks_out, warnings[j])],
                       1, NoneV)
        exception_msgs ==
            [j \in 1..Len(exceptions) |-> ExceptionMsg(final, exceptions[j])]
            \o RequiredMsgs(sinks_in, 1)
    IN  IF workflow_outputs_val.raised # "none"
        THEN [src_dict |-> final,
              out |-> [pre |-> src_dict, ended |-> "inside",
                       raised |-> workflow_outputs_val.raised, text |-> <<>>,
                       logged |-> <<>>, warnings |-> <<>>, exceptions |-> <<>>]]
        ELSE [src_dict |-> final,
              out |-> [pre |-> src_dict, ended |-> "end",
                       raised |-> IF RaiseAtEnd(exceptions, exception_msgs)
                                  THEN "ValidationException" ELSE "none",
                       text |-> IF RaiseAtEnd(exceptions, exception_msgs)
                                THEN exception_msgs ELSE <<>>,
                       logged |-> warning_msgs,
                       warnings |-> warnings, exceptions |-> exceptions]]

\* ------------------------------------------------------------------ type expressions
\* The type grammar: primitives, unions, arrays, records, enums, File with
\* secondaryFiles, and mappings carrying not_connected.
PrimNames == {"null", "int", "string", "File", "Any"}
Prim == {Str(p) : p \in PrimNames}
UnionsOf(S) == {List(q) : q \in UNION {[1..n -> S] : n \in 1..MaxUnion}}
SmallPrim == {Str("null"), Str("int"), Str("string")}
Base == Prim \cup UnionsOf(SmallPrim)

SFbai == [pattern |-> ".bai", required |-> "true"]
SFbaiOpt == [pattern |-> ".bai", required |-> "false"]
SFfai == [pattern |-> ".fai", required |-> "absent"]
SFLists == {<<>>, <<SFbai>>, <<SFbaiOpt>>, <<SFfai>>, <<SFbai, SFfai>>}
Files == {Typed(Str("File"), sf, FALSE) : sf \in SFLists}

FieldNames == {<<"x">>, <<"s", "x">>, <<"y">>}
FieldTypes == {Str("null"), Str("int"), List(<<Str("null"), Str("int")>>)}
Records ==
    {Rec(q) : q \in UNION {[1..n -> [name : FieldNames, type : FieldTypes]] :
                             n \in 1..MaxFields}}
Enums == {Enum(<<"A">>), Enum(<<"A", "B">>)}

Structs == {Arr(t) : t \in Base} \cup Records \cup Enums \cup Files
Branch ==
    {Str("null"), Str("int"), Str("Any"), List(<<Str("null")>>),
     List(<<Str("null"), Str("int")>>), Arr(Str("int")), Arr(List(<<Str("null")>>)),
     Typed(Str("File"), <<SFbai>>, FALSE), Enum(<<"A">>),
     Rec(<<[name |-> <<"s", "x">>, type |-> Str("int")]>>),
     Rec(<<[name |-> <<"x">>, type |-> List(<<Str("null")>>)]>>)}
Nested ==
    {Arr(t) : t \in Structs} \cup UnionsOf(Branch)
    \cup {Typed(t, <<>>, FALSE) : t \in Base \cup {Arr(Str("int")), Arr(Str("File"))}}

\* types carrying not_connected: on the mapping itself, or on a mapping inside
NCTop == {[t EXCEPT !.nc = TRUE] : t \in Structs}
         \cup {Typed(t, <<>>, TRUE) : t \in Base}
NCInside == {Arr(t) : t \in NCTop} \cup {List(<<t>>) : t \in NCTop}
AllTypes == Base \cup Structs \cup Nested \cup NCTop \cup NCInside

\* whether some mapping of t carries not_connected
RECURSIVE HasNotConnected(_)
HasNotConnected(t) ==
    IF IsList(t) THEN \E i \in 1..Len(t.v) : HasNotConnected(t.v[i])
    ELSE IF IsMap(t)
         THEN \/ t.nc
              \/ HasNotConnected(t.type)
              \/ HasNotConnected(t.items)
              \/ \E i \in 1..Len(t.fields) : HasNotConnected(t.fields[i].type)
    ELSE FALSE

\* whether t has a union all of whose branches are null (the empty union too)
RECURSIVE HasNullOnlyUnion(_)
HasNullOnlyUnion(t) ==
    IF IsList(t)
    THEN \/ \A i \in 1..Len(t.v) : t.v[i] = Str("null")
         \/ \E i \in 1..Len(t.v) : HasNullOnlyUnion(t.v[i])
    ELSE IF IsMap(t)
         THEN \/ HasNullOnlyUnion(t.type)
              \/ HasNullOnlyUnion(t.items)
              \/ \E i \in 1..Len(t.fields) : HasNullOnlyUnion(t.fields[i].type)
    ELSE FALSE

\* the (src, sink) arguments the oracle is called on
PairSrcs ==
    Base \cup Files
    \cup {Arr(Str("int")), Arr(Str("string")), Arr(List(<<Str("int"), Str("string")>>)),
          Typed(Str("int"), <<>>, FALSE), Typed(Str("Any"), <<>>, FALSE),
          Typed(List(<<Str("null"), Str("int")>>), <<>>, FALSE),
          Typed(Arr(Str("int")), <<>>, FALSE),
          List(<<Arr(Str("int")), Arr(List(<<Str("int"), Str("string")>>))>>),
          List(<<Typed(Str("File"), <<SFfai>>, FALSE)>>)}
PairSinks ==
    Prim \cup Files
    \cup {List(<<Str("null"), Str("int")>>), List(<<Str("int"), Str("string")>>),
          Arr(Str("int")), Arr(Str("string")), Arr(Arr(Str("int"))),
          Typed(Str("int"), <<>>, FALSE), Typed(Arr(Str("int")), <<>>, FALSE),
          Typed(Str("Any"), <<>>, TRUE), Typed(Str("int"), <<>>, TRUE),
          Typed(Str("File"), <<SFbai>>, TRUE), Typed(Arr(Str("int")), <<>>, TRUE),
          [Arr(Str("int")) EXCEPT !.nc = TRUE],
          Typed(List(<<Str("null"), Str("int")>>), <<>>, TRUE)}
TypePairs == {<<t, t>> : t \in AllTypes} \cup (PairSrcs \X PairSinks)

LinkMerges == {NoneV, Str("merge_nested"), Str("merge_flattened"), Str("merge_other")}
ValueFroms == {NoneV, Str("$(self)")}

\* ------------------------------------------------------------------ the oracle's calls
NoCall == [op |-> "none", strict |-> FALSE, linkMerge |-> NoneV, valueFrom |-> NoneV,
           bool |-> FALSE, verdict |-> "none"]

CallCanAssign(strict) ==
    /\ tres' = [op |-> "can_assign", strict |-> strict, linkMerge |-> NoneV,
                valueFrom |-> NoneV,
                bool |-> can_assign_src_to_sink(tsrc, tsink, strict), verdict |-> "none"]
    /\ UNCHANGED <<tsrc, tsink>>

CallCheckTypes(linkMerge, valueFrom) ==
    /\ tres' = [op |-> "check_types", strict |-> FALSE, linkMerge |-> linkMerge,
                valueFrom |-> valueFrom, bool |-> FALSE,
                verdict |-> check_types(tsrc, tsink, linkMerge, valueFrom)]
    /\ UNCHANGED <<tsrc, tsink>>

TypesIdle == tsrc = NoneV /\ tsink = NoneV /\ tres = NoCall
StaticIdle ==
    /\ srcs = <<>> /\ param_to_step = <<>> /\ step_inputs = <<>>
    /\ workflow_outputs = <<>> /\ runs = <<>>
CycleIdle == cyc_inputs = <<>> /\ cyc_out = NoneV
LoopIdle == steps = <<>> /\ loop_out = NoneV

InitTypes ==
    /\ \E p \in TypePairs : tsrc = p[1] /\ tsink = p[2]
    /\ tres = NoCall
    /\ StaticIdle /\ CycleIdle /\ LoopIdle

NextTypes ==
    \/ \E strict \in BOOLEAN : CallCanAssign(strict) /\ UNCHANGED <<staticVars, cycleVars, loopVars>>
    \/ \E lm \in LinkMerges, vf \in ValueFroms :
          CallCheckTypes(lm, vf) /\ UNCHANGED <<staticVars, cycleVars, loopVars>>

SpecTypes == InitTypes /\ [][NextTypes]_vars

\* ------------------------------------------------------------------ claims on the oracle
StrictCallOn(src, sink) ==
    tres.op = "can_assign" /\ tres.strict /\ tsrc = src /\ tsink = sink

\* A well-formed union has a branch other than null (a union of nulls is null).
WellFormed(t) == ~HasNullOnlyUnion(t)

C7_NotConnectedNeverPasses ==
    (IsMap(tsink) /\ tsink.nc) =>
        /\ (tres.op = "can_assign" /\ tres.strict) => ~tres.bool
        /\ (tres.op = "check_types" /\ tres.valueFrom = NoneV) => tres.verdict # "pass"

\* ------------------------------------------------------------------ loop_check
StepShapes == [loop : BOOLEAN, when : BOOLEAN, scatter : BOOLEAN]

InitLoop ==
    /\ steps \in UNION {[1..n -> StepShapes] : n \in 0..MaxSteps}
    /\ loop_out = NoneV
    /\ TypesIdle /\ StaticIdle /\ CycleIdle

LoopCheck ==
    /\ loop_out = NoneV
    /\ loop_out' = loop_checker(steps)
    /\ UNCHANGED <<steps, typeVars, staticVars, cycleVars>>

NextLoop == LoopCheck
SpecLoop == InitLoop /\ [][NextLoop]_vars

Count(q, x) == Cardinality({i \in 1..Len(q) : q[i] = x})

\* C8: loop_checker raises iff some step has loop and (lacks when or has
\* scatter); the failure has one message per violation over all steps, a step
\* with loop, no when and scatter giving both, and no step is skipped.
C8_LoopCheck ==
    loop_out # NoneV =>
        /\ loop_out.raised <=>
              \E i \in 1..Len(steps) :
                  steps[i].loop /\ (~steps[i].when \/ steps[i].scatter)
        /\ \A i \in 1..Len(steps) :
              /\ Count(loop_out.exceptions, [step |-> i, text |-> WhenMandatory])
                    = IF steps[i].loop /\ ~steps[i].when THEN 1 ELSE 0
              /\ Count(loop_out.exceptions, [step |-> i, text |-> LoopScatter])
                    = IF steps[i].loop /\ steps[i].scatter THEN 1 ELSE 0
        /\ \A j \in 1..Len(loop_out.exceptions) :
              loop_out.exceptions[j].step \in 1..Len(steps)

\* C8 witness: a raised failure where the first step gave both messages and a
\* later step one more.
C8_Witness ==
    /\ loop_out # NoneV /\ loop_out.raised
    /\ Len(steps) >= 2
    /\ steps[1].loop /\ ~steps[1].when /\ steps[1].scatter
    /\ Len(loop_out.exceptions) >= 3
    /\ loop_out.exceptions[3].step > 1

\* ------------------------------------------------------------------ cycle_check
Doc == "wf"
StepNames == {"s1", "s2", "s3"}
InPort(s) == [doc |-> Doc, frag |-> <<s, "in">>]
OutPort(s) == [doc |-> Doc, frag |-> <<s, "out">>]
WfInput == [doc |-> Doc, frag |-> <<"inp">>]
CycSources ==
    {NoneV, List(<<OutPort("s3"), WfInput>>)} \cup {Str(OutPort(s)) : s \in StepNames}
CycStepInputs == {[id |-> InPort(s), source |-> src] : s \in StepNames, src \in CycSources}

InitCycle ==
    /\ cyc_inputs \in UNION {[1..n -> CycStepInputs] : n \in 0..MaxCycInputs}
    /\ cyc_out = NoneV
    /\ TypesIdle /\ StaticIdle /\ LoopIdle

CycleCheck ==
    /\ cyc_out = NoneV
    /\ cyc_out' = circular_dependency_checker(cyc_inputs)
    /\ UNCHANGED <<cyc_inputs, typeVars, staticVars, loopVars>>

NextCycle == CycleCheck
SpecCycle == InitCycle /\ [][NextCycle]_vars

\* the step dependency graph of the step inputs' source fields
SourceIds(step_input) ==
    IF step_input.source = NoneV THEN {}
    ELSE IF IsList(step_input.source) THEN SeqSet(step_input.source.v)
    ELSE {step_input.source.v}
GraphEdges ==
    {<<get_step_id(src), get_step_id(cyc_inputs[i].id)>> :
        <<i, src>> \in {p \in (1..Len(cyc_inputs)) \X
                               ({WfInput} \cup {OutPort(s) : s \in StepNames}) :
                           p[2] \in SourceIds(cyc_inputs[p[1]])}}
GraphVertices == {e[1] : e \in GraphEdges} \cup {e[2] : e \in GraphEdges}
RECURSIVE PathsWithin(_, _)
\* the pairs joined by a path of 1..n edges
PathsWithin(E, n) ==
    IF n <= 1 THEN E
    ELSE LET P == PathsWithin(E, n - 1)
         IN  P \cup {<<p[1], e[2]>> : <<p, e>> \in {x \in P \X E : x[1][2] = x[2][1]}}
HasDirectedCycle ==
    \E v \in GraphVertices : <<v, v>> \in PathsWithin(GraphEdges, Cardinality(GraphVertices))
IsDirectedCycle(c) ==
    /\ Len(c) >= 1
    /\ \A i, j \in 1..Len(c) : i # j => c[i] # c[j]
    /\ \A i \in 1..(Len(c) - 1) : <<c[i], c[i + 1]>> \in GraphEdges
    /\ <<c[Len(c)], c[1]>> \in GraphEdges

\* C3: circular_dependency_checker raises iff the step dependency graph built
\* from the source fields has a directed cycle (self-loops included); an
\* acyclic graph returns without raising; every reported list is a path of
\* the graph closed by the edge back to its first vertex.
C3_CycleCheck ==
    cyc_out # NoneV =>
        /\ cyc_out.raised <=> HasDirectedCycle
        /\ \A i \in 1..Len(cyc_out.cycles) : IsDirectedCycle(cyc_out.cycles[i])

\* C3 witness: raised, and one reported cycle goes through three steps.
C3_Witness ==
    /\ cyc_out # NoneV /\ cyc_out.raised
    /\ \E i \in 1..Len(cyc_out.cycles) : Len(cyc_out.cycles[i]) = 3

\* ------------------------------------------------------------------ static_check
\* The call: it promotes source types in place and appends what it produced.
StaticCheck ==
    /\ Len(runs) < MaxRuns
    /\ LET r == static_checker(srcs, step_inputs, workflow_outputs, param_to_step)
       IN  /\ srcs' = r.src_dict
           /\ runs' = Append(runs, r.out)
    /\ UNCHANGED <<param_to_step, step_inputs, workflow_outputs,
                   typeVars, cycleVars, loopVars>>

NextStatic == StaticCheck

\* the workflows the call is made on
MkSink(source, type, sf, nc, used, linkMerge, pickValue, valueFrom, default) ==
    [id |-> NoneV, source |-> source, type |-> type, sf |-> sf, nc |-> nc,
     used |-> used, linkMerge |-> linkMerge, pickValue |-> pickValue,
     valueFrom |-> valueFrom, default |-> default]
WithIds(q, port) == [i \in 1..Len(q) |-> [q[i] EXCEPT !.id = [port |-> port, n |-> i]]]
SeqsUpTo(S, lo, hi) == UNION {[1..n -> S] : n \in lo..hi}

IntT == Str("int")
NullableInt == List(<<Str("null"), Str("int")>>)
Expr == Str("$(self)")
PlainStep == [when |-> NoneV, loop |-> NoneV, outputMethod |-> NoneV]
CondStep == [when |-> Str("$(inputs.go)"), loop |-> NoneV, outputMethod |-> NoneV]
LoopAllStep == [when |-> Str("$(inputs.go)"), loop |-> Str("loop"),
                outputMethod |-> Str("all_iterations")]
LoopAllNoWhenStep == [when |-> NoneV, loop |-> Str("loop"),
                      outputMethod |-> Str("all_iterations")]
LoopLastStep == [when |-> Str("$(inputs.go)"), loop |-> Str("loop"),
                 outputMethod |-> Str("last_iteration")]
\* owner NoneV: a workflow input, which param_to_step does not hold
Owners(a, b) ==
    LET o == [i \in {"a", "b"} |-> IF i = "a" THEN a ELSE b]
    IN  [i \in {j \in {"a", "b"} : o[j] # NoneV} |-> o[i]]
TwoSources(ta, sfa, tb, sfb) ==
    [i \in {"a", "b"} |-> IF i = "a" THEN [type |-> ta, sf |-> sfa]
                          ELSE [type |-> tb, sf |-> sfb]]

InitStaticFrom(configs, ins, outs) ==
    /\ \E c \in configs : srcs = c[1] /\ param_to_step = c[2]
    /\ \E q \in ins : step_inputs = WithIds(q, "in")
    /\ \E q \in outs : workflow_outputs = WithIds(q, "out")
    /\ runs = <<>>
    /\ TypesIdle /\ CycleIdle /\ LoopIdle

\* wiring: sinks with and without a source, a default, a valueFrom; source ids
\* that resolve and that do not
WiringSinks ==
    {MkSink(NoneV, t, <<>>, FALSE, FALSE, NoneV, NoneV, w[1], w[2]) :
        t \in {IntT, NullableInt, Str("null"), Arr(IntT)},
        w \in {<<NoneV, FALSE>>, <<NoneV, TRUE>>, <<Expr, FALSE>>}}
    \cup {MkSink(src, IntT, <<>>, FALSE, FALSE, NoneV, NoneV, vf, FALSE) :
            src \in {Str("a"), Str("b"), Str("m"), List(<<"m">>), List(<<"a", "m">>),
                     List(<<"a">>)},
            vf \in {NoneV, Expr}}
WiringOutputs ==
    {MkSink(src, IntT, <<>>, FALSE, FALSE, NoneV, NoneV, NoneV, FALSE) :
        src \in {Str("a"), Str("b"), Str("m")}}
InitWiring ==
    InitStaticFrom({<<TwoSources(IntT, <<>>, Str("string"), <<>>), Owners(NoneV, PlainStep)>>},
                   SeqsUpTo(WiringSinks, 0, MaxSinks), SeqsUpTo(WiringOutputs, 0, 1))
SpecWiring == InitWiring /\ [][NextStatic]_vars

\* promotion: a source owned by a conditional or loop step, read by several sinks
PromoteSinks ==
    {MkSink(src, t, <<>>, FALSE, FALSE, NoneV, pv, NoneV, FALSE) :
        src \in {Str("a"), List(<<"a">>), List(<<"a", "b">>)},
        t \in {IntT, NullableInt, Arr(IntT)},
        pv \in {NoneV, Str("first_non_null")}}
PromoteOutputs == {MkSink(Str("a"), IntT, <<>>, FALSE, FALSE, NoneV, NoneV, NoneV, FALSE)}
InitPromote ==
    InitStaticFrom({<<TwoSources(IntT, <<>>, IntT, <<>>), Owners(o, NoneV)>> :
                       o \in {NoneV, PlainStep, CondStep, LoopAllStep, LoopAllNoWhenStep,
                              LoopLastStep}},
                   SeqsUpTo(PromoteSinks, 0, MaxSinks), SeqsUpTo(PromoteOutputs, 0, 1))
SpecPromote == InitPromote /\ [][NextStatic]_vars

\* secondaryFiles: File sources and sinks, plain, nullable and array
FileT == Str("File")
FileShapes == {FileT, List(<<Str("null"), FileT>>), Arr(FileT)}
SecondarySinks ==
    {MkSink(src, t, sf, FALSE, FALSE, NoneV, NoneV, vf, FALSE) :
        src \in {Str("a"), List(<<"a">>)}, t \in FileShapes,
        sf \in {<<>>, <<SFbai>>, <<SFbaiOpt>>, <<SFbai, SFfai>>},
        vf \in {NoneV, Expr}}
InitSecondary ==
    InitStaticFrom({<<TwoSources(t, sf, FileT, <<>>), Owners(PlainStep, NoneV)>> :
                       t \in FileShapes,
                       sf \in {<<>>, <<SFfai>>, <<[pattern |-> ".bai", required |-> "absent"]>>,
                               <<SFbai>>}},
                   SeqsUpTo(SecondarySinks, 0, MaxEdgeSinks), {<<>>})
SpecSecondary == InitSecondary /\ [][NextStatic]_vars

\* linkMerge and pickValue: one source or several, into T and array<T>
LinkSinks ==
    {MkSink(src, t, <<>>, FALSE, FALSE, lm, pv, NoneV, FALSE) :
        src \in {Str("a"), List(<<"a">>), List(<<"a", "b">>)},
        t \in {IntT, Arr(IntT), Arr(Str("string"))},
        lm \in {NoneV, Str("merge_flattened"), Str("merge_other")},
        pv \in {NoneV, Str("first_non_null"), Str("all_non_null")}}
    \cup {MkSink(List(<<"a", "b">>), t, <<>>, FALSE, TRUE, NoneV, NoneV, Expr, FALSE) :
            t \in {IntT, Arr(IntT)}}
InitLink ==
    InitStaticFrom({<<TwoSources(t, <<>>, t, <<>>), Owners(o, NoneV)>> :
                       t \in {IntT, Str("string")},
                       o \in {PlainStep, CondStep, LoopAllStep}},
                   SeqsUpTo(LinkSinks, 0, MaxEdgeSinks), {<<>>})
SpecLink == InitLink /\ [][NextStatic]_vars

\* ------------------------------------------------------------------ claims on static_check
AllSinks == step_inputs \o workflow_outputs
SinkSourceIds(sink) ==
    IF sink.source = NoneV THEN <<>>
    ELSE IF IsList(sink.source) THEN sink.source.v
    ELSE <<sink.source.v>>
AllSourcesResolve ==
    \A i \in 1..Len(AllSinks) : SeqSet(SinkSourceIds(AllSinks[i])) \subseteq DOMAIN srcs
TypeIncludesNull(t) == t = Str("null") \/ (IsList(t) /\ Str("null") \in SeqSet(t.v))
DiagsOf(run, sink) ==
    {d \in SeqSet(run.warnings) \cup SeqSet(run.exceptions) : d.sink = sink.id}

\* C1: whenever some step input has a type without null and none of source,
\* default, valueFrom, static_check (on a workflow whose source ids all
\* resolve) ends by raising a validation failure that has the "Required
\* parameter" message of that input, also when no edge is a type mismatch.
C1_RequiredParameterRaises ==
    \A r \in 1..Len(runs) : \A i \in 1..Len(step_inputs) :
        (/\ AllSourcesResolve
         /\ ~TypeIncludesNull(step_inputs[i].type)
         /\ step_inputs[i].source = NoneV
         /\ ~step_inputs[i].default
         /\ step_inputs[i].valueFrom = NoneV)
        => /\ runs[r].raised = "ValidationException"
           /\ \E j \in 1..Len(runs[r].text) :
                 /\ runs[r].text[j].kind = "required_parameter"
                 /\ runs[r].text[j].sink = step_inputs[i].id

\* C2: two calls in a row on the same parameter objects give the same
\* diagnostics: the same warnings, the same outcome, the same exceptions.
Diagnostics(run) ==
    [raised |-> run.raised, warnings |-> SeqSet(run.warnings),
     exceptions |-> SeqSet(run.exceptions)]
C2_SameDiagnosticsTwice ==
    Len(runs) >= 2 => Diagnostics(runs[1]) = Diagnostics(runs[2])

\* C4: whenever a sink's source field names an id that is not in the source
\* index, as one id or in a sequence, static_check fails with a validation
\* exception.
C4_MissingSourceIsValidationException ==
    \A r \in 1..Len(runs) :
        ~AllSourcesResolve => runs[r].raised = "ValidationException"

\* C5: for every edge (without valueFrom) whose sink requires secondaryFiles
\* patterns the source does not declare, static_check emits the
\* missing-secondaryFiles warning of that edge listing exactly those patterns,
\* whatever the shape of the two types.
RequiredPatterns(sink) ==
    {sink.sf[j].pattern : j \in {n \in 1..Len(sink.sf) : sink.sf[n].required # "false"}}
DeclaredPatterns(src) == {src.sf[j].pattern : j \in 1..Len(src.sf)}
C5_MissingSecondaryFilesWarned ==
    \A r \in 1..Len(runs) : \A i \in 1..Len(AllSinks) :
        \A id \in SeqSet(SinkSourceIds(AllSinks[i])) \cap DOMAIN srcs :
            LET missing == RequiredPatterns(AllSinks[i]) \ DeclaredPatterns(srcs[id])
            IN  (missing # {} /\ AllSinks[i].valueFrom = NoneV /\ runs[r].ended = "end")
                => \E j \in 1..Len(runs[r].logged) :
                      /\ runs[r].logged[j].kind = "missing_secondaryFiles"
                      /\ runs[r].logged[j].src = id
                      /\ runs[r].logged[j].sink = AllSinks[i].id
                      /\ SeqSet(runs[r].logged[j].missing) = missing

\* C9: for every sink with pickValue and exactly one source id, as a bare id
\* or as a sequence of one, static_check records the warning "pickValue is
\* used but only a single input source is declared".
C9_PickValueSingleSourceWarned ==
    \A r \in 1..Len(runs) : \A i \in 1..Len(AllSinks) :
        (/\ runs[r].ended = "end"
         /\ AllSinks[i].pickValue # NoneV
         /\ Len(SinkSourceIds(AllSinks[i])) = 1)
        => \E d \in DiagsOf(runs[r], AllSinks[i]) :
              d \in SeqSet(runs[r].warnings) /\ d.message = PickValueSingle

\* C10.  A sink whose source is a sequence of two or more ids, without
\* linkMerge, valueFrom, pickValue, all sources of primitive type T (not Any):
MergedSink(run, sink, T) ==
    /\ IsList(sink.source) /\ Len(sink.source.v) >= 2
    /\ sink.linkMerge = NoneV /\ sink.valueFrom = NoneV /\ sink.pickValue = NoneV
    /\ T # Str("Any")
    /\ \A id \in SeqSet(sink.source.v) : id \in DOMAIN run.pre /\ run.pre[id].type = T
Unpromoted(sink) ==
    \A id \in SeqSet(sink.source.v) :
        id \notin DOMAIN param_to_step
        \/ (/\ param_to_step[id].when = NoneV
            /\ ~(/\ param_to_step[id].loop # NoneV
                 /\ param_to_step[id].outputMethod = Str("all_iterations")))
\* the effective linkMerge of a sequence-source sink
EffectiveLinkMerge(sink) ==
    IF sink.pickValue \in {Str("first_non_null"), Str("the_only_non_null")} THEN NoneV
    ELSE IF sink.linkMerge # NoneV THEN sink.linkMerge
    ELSE IF Len(sink.source.v) >= 2 THEN Str("merge_nested") ELSE NoneV
C10_Rest(run, sink) ==
    /\ \A T \in Prim :
          (MergedSink(run, sink, T) /\ sink.type = T)
          => /\ run.raised # "none"
             /\ run.ended = "end" =>
                   \A id \in SeqSet(sink.source.v) :
                       \E d \in DiagsOf(run, sink) :
                           /\ d \in SeqSet(run.exceptions)
                           /\ d.src = id /\ d.linkMerge = Str("merge_nested")
    /\ IsList(sink.source) =>
          \A d \in DiagsOf(run, sink) : d.linkMerge = EffectiveLinkMerge(sink)

\* C10 as stated: with the sink of type array<T> every edge passes and yields
\* no diagnostic; with the sink of type T every edge is an exception and
\* static_check raises; an explicit linkMerge overrides the default and
\* pickValue first_non_null / the_only_non_null forces linkMerge to none.
C10_MergeNestedDefault ==
    \A r \in 1..Len(runs) : \A i \in 1..Len(AllSinks) :
        /\ \A T \in Prim :
              (MergedSink(runs[r], AllSinks[i], T) /\ AllSinks[i].type = Arr(T)
                  /\ runs[r].ended = "end")
              => DiagsOf(runs[r], AllSinks[i]) = {}
        /\ C10_Rest(runs[r], AllSinks[i])

\* C10 amended: the array<T> case yields no diagnostic when no source of the
\* sink is owned by a conditional step or by a loop step with outputMethod
\* all_iterations; the rest as stated.
C10_MergeNestedDefaultUnpromoted ==
    \A r \in 1..Len(runs) : \A i \in 1..Len(AllSinks) :
        /\ \A T \in Prim :
              (MergedSink(runs[r], AllSinks[i], T) /\ AllSinks[i].type = Arr(T)
                  /\ Unpromoted(AllSinks[i]) /\ runs[r].ended = "end")
              => DiagsOf(runs[r], AllSinks[i]) = {}
        /\ C10_Rest(runs[r], AllSinks[i])

\* C10 witness: a call that returned without a diagnostic on two int sources
\* merged into array<int>, one of them a step output.
C10_Witness ==
    \E r \in 1..Len(runs) : \E i \in 1..Len(AllSinks) :
        /\ MergedSink(runs[r], AllSinks[i], IntT) /\ AllSinks[i].type = Arr(IntT)
        /\ Unpromoted(AllSinks[i]) /\ "a" \in DOMAIN param_to_step
        /\ runs[r].ended = "end" /\ runs[r].raised = "none"
        /\ DiagsOf(runs[r], AllSinks[i]) = {}

\* the source parameters after call r
SrcsAfter(r) == IF r < Len(runs) THEN runs[r + 1].pre ELSE srcs

\* C11: promotions are idempotent: a source's type never becomes
\* array(array(original)), and a source that an earlier call has promoted is
\* left with the same type by every later call.
C11_PromotionIdempotent ==
    Len(runs) >= 1 =>
        \A id \in DOMAIN srcs :
            LET original == runs[1].pre[id].type
            IN  /\ \A r \in 1..Len(runs) : SrcsAfter(r)[id].type # Arr(Arr(original))
                /\ \A r \in 2..Len(runs) :
                       runs[r].pre[id].type # original
                       => SrcsAfter(r)[id].type = runs[r].pre[id].type

\* C12 (on sinks without not_connected): a strict call on a union source
\* returns True only if every branch is itself strictly assignable to the sink;
\* a non-strict call on a (well-formed) union source returns True iff some
\* branch other than null is assignable.
C12_StrictUnionEveryBranch ==
    (tres.op = "can_assign" /\ IsList(tsrc) /\ ~HasNotConnected(tsink)) =>
        /\ (tres.strict /\ tres.bool)
           => \A i \in 1..Len(tsrc.v) : can_assign_src_to_sink(tsrc.v[i], tsink, TRUE)
        /\ (~tres.strict /\ WellFormed(tsrc))
           => (tres.bool <=>
                  \E i \in 1..Len(tsrc.v) :
                      /\ tsrc.v[i] # Str("null")
                      /\ can_assign_src_to_sink(tsrc.v[i], tsink, FALSE))

\* C13.  A resolved source owned by a conditional step, read by a sink without
\* pickValue, in a call that reached its end:
CondOwned(id) == id \in DOMAIN param_to_step /\ param_to_step[id].when # NoneV
LoopAllOwned(id) ==
    /\ id \in DOMAIN param_to_step
    /\ param_to_step[id].loop # NoneV
    /\ param_to_step[id].outputMethod = Str("all_iterations")
Warned(run, id, sink, message) ==
    \E w \in SeqSet(run.warnings) :
        w.src = id /\ w.sink = sink.id /\ w.message = message
CondEdges(r) ==
    {e \in (1..Len(AllSinks)) \X DOMAIN srcs :
        /\ runs[r].ended = "end"
        /\ e[2] \in SeqSet(SinkSourceIds(AllSinks[e[1]]))
        /\ AllSinks[e[1]].pickValue = NoneV
        /\ CondOwned(e[2])}
SingleNonNull(sink) == ~IsList(sink.source) /\ ~TypeIncludesNull(sink.type)

\* C13 as stated: the warning "Source is from conditional step, but pickValue
\* is not used" is recorded whether the sink's source is one id or a sequence;
\* for a single-source sink whose type does not include null the warning
\* "... may produce 'null'" is recorded too and the source's type afterwards
\* includes null.
C13_ConditionalWarned ==
    \A r \in 1..Len(runs) : \A e \in CondEdges(r) :
        LET sink == AllSinks[e[1]]
        IN  /\ Warned(runs[r], e[2], sink, CondNoPickValue)
            /\ SingleNonNull(sink)
               => /\ Warned(runs[r], e[2], sink, CondMayBeNull)
                  /\ TypeIncludesNull(SrcsAfter(r)[e[2]].type)

\* C13 amended: "... pickValue is not used" is recorded when the sink's source
\* is a sequence; for a single-source sink whose type does not include null
\* "... may produce 'null'" is recorded and, unless the step is also a loop
\* step with outputMethod all_iterations, the source's type afterwards
\* includes null.
C13_ConditionalWarnedBySourceForm ==
    \A r \in 1..Len(runs) : \A e \in CondEdges(r) :
        LET sink == AllSinks[e[1]]
        IN  /\ IsList(sink.source) => Warned(runs[r], e[2], sink, CondNoPickValue)
            /\ SingleNonNull(sink)
               => /\ Warned(runs[r], e[2], sink, CondMayBeNull)
                  /\ ~LoopAllOwned(e[2]) => TypeIncludesNull(SrcsAfter(r)[e[2]].type)

\* C13 witness: a call in which a conditional int source was read by a
\* sequence sink and by a single-source int sink, both warnings were recorded
\* and the source's type became [null, int].
C13_Witness ==
    \E r \in 1..Len(runs) : \E e, f \in CondEdges(r) :
        /\ e[2] = f[2] /\ ~LoopAllOwned(e[2])
        /\ runs[r].pre[e[2]].type = IntT
        /\ IsList(AllSinks[e[1]].source)
        /\ Warned(runs[r], e[2], AllSinks[e[1]], CondNoPickValue)
        /\ SingleNonNull(AllSinks[f[1]])
        /\ Warned(runs[r], f[2], AllSinks[f[1]], CondMayBeNull)
        /\ SrcsAfter(r)[f[2]].type = NullableInt

====
